---- MODULE Spec2Model ----
(***************************************************************************)
(* Interactive session orchestrator of terminai (src/src/shell.ts):        *)
(* the readline loop, the SIGINT handler, the per-command subprocess       *)
(* handlers (close / error / exit) and the two AI recovery paths           *)
(* (handleFailedCommand, handleFailedAiCommand).                           *)
(*                                                                         *)
(* Node runs every handler to completion (or to its next `await` on an     *)
(* external event), so one action is one handler run up to the point where *)
(* it waits for the user, the child process or the translation service.    *)
(***************************************************************************)
EXTENDS Integers, Sequences, FiniteSets, TLC

\* ------------------------------------------------------------------ bounds
\* Number of executeCommand invocations whose handlers can be in flight at
\* once.
MaxProcs == 2

\* The history limits of the program, scaled down: readline keeps at most
\* historySize lines (default 30), addToHistory cuts a buffer longer than
\* 1000 entries to 500, saveHistory writes at most 1000 lines.
HistorySize == 3
HistoryMax == 4
HistoryKeep == 2

\* Number of characters a child writes to its error stream at most.
MaxStderr == 2

\* The cap of getPathCommands (50 in the program), scaled down, and the
\* number of executable files found on the search path at most.
CompletionCap == 2
MaxPath == 3

\* The input timeout of the key prompt (60 seconds in the program), in
\* ticks, and the number of key prompts shown at most.
KeyTimeout == 2
MaxKeyPrompts == 2

\* ------------------------------------------------------------- vocabulary
NoText == "<none>"

\* Commands the translation collaborator can return (single-line commands).
AiCmds == {"s1"}

\* Lines the user types at the shell prompt.
Commands == {"exit", "exit ", "quit", "", " ", "c1", "cd w", "cd .."}

\* Directory-change lines the user types at the shell prompt: bare, with a
\* trailing blank, relative, parent, absolute, and with two blanks.
CdCommands == {"cd", "cd ", "cd w", "cd ..", "cd /m", "cd  w"}

\* Lines the user types at the yes/no fix prompt.
Answers == {"y", "n", ""}

\* Exit codes a child can report on 'close': 0, a nonzero code, or null
\* (terminated by a signal); a failed spawn reports the negative errno.
NullCode == -1
SpawnErrCode == -2
ExitCodes == {0, 1, NullCode}

\* Lines as readline records them in its history, as sequences of
\* characters: plain, with a trailing blank, with a leading blank, blank.
NL == "\n"
TypedLines == {<<"a">>, <<"a", " ">>, <<" ", "a">>, <<" ">>, <<>>}

\* Commands handed to addToHistory (trimmed by the loop, never empty).
FailedCommands == {<<"a">>}

\* Chunks a child writes to its error stream.
ErrChunks == {<<"e">>, <<"e", NL>>}

\* Lines the user types at the shell prompt while error text is observed.
ErrCommands == {"c1", ""}

\* The built-in command set of the completer (eight commands in the
\* program), as sequences of characters.
BasicCommands == << <<"l", "s">>, <<"c", "d">> >>

\* Names of executable files on the search path.
PathNames == {<<"l", "s">>, <<"l", "a">>, <<"l", "b">>, <<"x">>}

\* Lines the user asks a completion for.
CompletedLines == {<<>>, <<"l">>, <<"l", "s">>, <<"x">>, <<"l", "s", " ">>,
                   <<"l", "s", " ", ".">>}

\* The entries of the current directory.
DirListing == << <<"l", "o", "g">>, <<".", "e">> >>

NotHidden(name) == ~(Len(name) > 0 /\ name[1] = ".")

\* No completion was asked for.
NoCompletion == [path |-> <<>>, line |-> <<>>, hits |-> <<>>]

\* Lines the user types at the API key prompt.
KeyLines == {"", " ", "k"}

\* Directories that exist.
Dirs == {"/", "/w"}

\* os.homedir()
HomeDir == "/w"

VARIABLES
  aiService,     \* TRUE iff this.aiService is non-null
  session,       \* "running" | "resolved" (promise of startInteractiveLoop);
                 \* "starting" while start() awaits the API key, "exited"
                 \* after process.exit
  histSaved,     \* saveHistory() has been called by cleanup()
  question,      \* readline's pending question callback
  rlLine,        \* readline's line buffer as far as rl.write prefilled it
  ctx,           \* this.aiSuggestionContext
  slot,          \* this.currentRunningProcess (0 = null, else index in procs)
  procs,         \* the executeCommand invocations in flight, oldest first
  last,          \* the handler that ran last and the branch it took
  cwd,           \* this.currentDirectory
  history,       \* rl.history, newest first
  historyFile,   \* the file at this.historyFile
  completion,    \* the executables on the search path and the last
                 \* completion: the line completed and the candidates
  keyTimers      \* the timers armed by promptForApiKey: time left of each

vars == <<aiService, session, histSaved, question, rlLine, ctx, slot, procs,
          last, cwd, history, historyFile, completion, keyTimers>>

\* The session actions record of the history only that cleanup() saved it
\* (histSaved); the recall buffer and its file are the state of the history
\* operations (TypeLine, AddToHistory, SaveHistory, StartSession).
sessionVars == <<aiService, session, histSaved, question, rlLine, ctx, slot,
                 procs, last, cwd>>

histVars == <<history, historyFile>>

\* What neither the session loop nor the history operations touch.
sideVars == <<completion, keyTimers>>

\* ------------------------------------------------------------ data shapes
NoCtx == [set |-> FALSE, originalCommand |-> NoText]

MkCtx(text) == [set |-> TRUE, originalCommand |-> text]

NoQuestion == [k |-> "none", p |-> 0]

LineQuestion == [k |-> "line", p |-> 0]

ConfirmQuestion(p) == [k |-> "confirm", p |-> p]

\* One executeCommand invocation: its arguments, the child (killed: the
\* session sent it SIGINT), whether its promise is already resolved, and how
\* many translation requests its close handler has issued.
NewProc(command, skipAiTranslation, originalPrompt) ==
  [st |-> "running", cmd |-> command, skip |-> skipAiTranslation,
   orig |-> originalPrompt, killed |-> FALSE, resolved |-> FALSE,
   nReq |-> 0, err |-> <<>>, code |-> NullCode]

\* A child is live from spawn until its close event.
Live(r) == r.st \in {"running", "exited"}

\* The handler that ran, the branch it took, and the failure it printed
\* with console.error (msg), if any.
\* No translation request goes out in the step.
NoReq == [orig |-> NoText, cmd |-> NoText, code |-> NullCode, err |-> <<>>]

Event(h, b, skipAiTranslation, code) ==
  [h |-> h, b |-> b, skip |-> skipAiTranslation, code |-> code,
   msg |-> NoText, dir |-> NoText, req |-> NoReq]

\* ---------------------------------------------------------- pure helpers
\* String.prototype.trim on the lines of the vocabulary.
Trim(s) ==
  CASE s = " " -> ""
    [] s = "exit " -> "exit"
    [] s = " y" -> "y"
    [] s = "cd " -> "cd"
    [] OTHER -> s

\* String.prototype.toLowerCase on the lines of the vocabulary.
ToLowerCase(s) ==
  CASE s = "Y" -> "y"
    [] s = "YES" -> "yes"
    [] s = "Yes" -> "yes"
    [] OTHER -> s

\* command.startsWith('cd ')
StartsWithCd(command) == command \in {"cd w", "cd ..", "cd /m", "cd  w"}

\* command.split(' ')[1]
CdArg(command) ==
  CASE command = "cd w" -> "w"
    [] command = "cd .." -> ".."
    [] command = "cd /m" -> "/m"
    [] command = "cd  w" -> ""
    [] OTHER -> NoText

\* path.isAbsolute(targetDir)
IsAbsolute(targetDir) == targetDir \in {"/", "/w", "/m"}

\* path.resolve(currentDirectory, targetDir) for a relative targetDir
PathResolve(dir, arg) ==
  CASE arg = ".." -> "/"
    [] dir = "/" -> "/" \o arg
    [] OTHER -> dir \o "/" \o arg

\* Lines 428-434: the directory handleCdCommand changes to.
TargetDir(dir, command) ==
  LET arg == CdArg(command)
      targetDir == IF arg \in {"", NoText} THEN HomeDir ELSE arg
  IN  IF IsAbsolute(targetDir) THEN targetDir
      ELSE PathResolve(dir, targetDir)

\* CdReport that names the argument as typed.
CdReport_NamesArgument(dir, command) ==
  IF TargetDir(dir, command) \in Dirs THEN NoText
  ELSE "cd: no such file or directory: " \o CdArg(command)

\* Line 441: what handleCdCommand prints when process.chdir throws.
CdReport(dir, command) ==
  IF TargetDir(dir, command) \in Dirs THEN NoText
  ELSE "cd: no such file or directory: " \o TargetDir(dir, command)

\* handleCdCommand without the check that the directory exists
HandleCdCommand_Unvalidated(dir, command) == TargetDir(dir, command)

\* handleCdCommand: the new currentDirectory
HandleCdCommand(dir, command) ==
  LET targetDir == TargetDir(dir, command)
  IN  IF targetDir \in Dirs THEN targetDir ELSE dir

\* Line 352: the cwd option given to spawn.
SpawnCwd(dir) == dir

\* getDirectoryContext answering with the directory the process started in
GetDirectoryContext_Cached(dir) == [currentDirectory |-> "/"]

\* getDirectoryContext (lines 268-333): the context built from
\* currentDirectory dir. It runs without yielding to the event loop: its
\* listing and detection calls are synchronous.
GetDirectoryContext(dir) == [currentDirectory |-> dir]

\* rl.question(prompt, cb) as called by promptUser: readline installs the
\* callback only when no question is pending, otherwise it only redraws.
PromptUser(q) == IF q.k = "none" THEN LineQuestion ELSE q

\* cleanup(): saveHistory(), rl.close(); shellProcess is never assigned.
Cleanup == histSaved' = TRUE

\* The invocations in flight once the p-th has ended, and what an index into
\* the old sequence becomes.
Remove(ps, p) ==
  [i \in 1..(Len(ps) - 1) |-> IF i < p THEN ps[i] ELSE ps[i + 1]]

ShiftPtr(x, p) == IF x = p THEN 0 ELSE IF x > p THEN x - 1 ELSE x

ShiftQuestion(q, p) == [q EXCEPT !.p = ShiftPtr(@, p)]

\* -------------------------------------------------------------- history
NoFile == [exists |-> FALSE, content |-> <<>>]

File(content) == [exists |-> TRUE, content |-> content]

\* Array.prototype.reverse
Reverse(s) == [i \in 1..Len(s) |-> s[Len(s) + 1 - i]]

\* Array.prototype.slice(0, n)
Slice(s, n) == SubSeq(s, 1, IF Len(s) < n THEN Len(s) ELSE n)

\* Array.prototype.join('\n')
RECURSIVE Join(_)
Join(lines) ==
  IF lines = <<>> THEN <<>>
  ELSE IF Len(lines) = 1 THEN lines[1]
  ELSE lines[1] \o <<NL>> \o Join(Tail(lines))

\* String.prototype.trim on a text
IsSpace(c) == c \in {" ", NL}

RECURSIVE TrimStart(_)
TrimStart(text) ==
  IF text # <<>> /\ IsSpace(Head(text)) THEN TrimStart(Tail(text)) ELSE text

RECURSIVE TrimEnd(_)
TrimEnd(text) ==
  IF text # <<>> /\ IsSpace(text[Len(text)])
  THEN TrimEnd(SubSeq(text, 1, Len(text) - 1))
  ELSE text

TrimText(text) == TrimEnd(TrimStart(text))

\* String.prototype.split('\n')
RECURSIVE Split(_)
Split(text) ==
  IF \A i \in 1..Len(text) : text[i] # NL THEN <<text>>
  ELSE LET i == CHOOSE k \in 1..Len(text) :
                  text[k] = NL /\ \A j \in 1..(k - 1) : text[j] # NL
       IN  <<SubSeq(text, 1, i - 1)>> \o Split(SubSeq(text, i + 1, Len(text)))

NonEmpty(line) == Len(line) > 0

\* loadHistory (lines 695-712): the recall buffer after loading file into a
\* store whose buffer is h.
LoadHistory(h, file) ==
  IF file.exists
  THEN Reverse(SelectSeq(Split(TrimText(file.content)), NonEmpty))
  ELSE h

\* saveHistory appending to the file instead of replacing it
SaveHistory_Appends(h, file) ==
  IF Len(h) > 0
  THEN File(file.content \o Join(Slice(Reverse(h), HistoryMax)) \o <<NL>>)
  ELSE file

\* saveHistory (lines 714-733): the file after saving buffer h over file.
SaveHistory(h, file) ==
  IF Len(h) > 0
  THEN File(Join(Slice(Reverse(h), HistoryMax)) \o <<NL>>)
  ELSE file

\* addToHistory keeping the oldest entries when it truncates
AddToHistoryBuffer_KeepsOldest(h, command) ==
  LET unshifted == <<command>> \o h
  IN  IF Len(unshifted) > HistoryMax
      THEN SubSeq(unshifted, Len(unshifted) - HistoryKeep + 1, Len(unshifted))
      ELSE unshifted

\* addToHistory truncating one entry too late
AddToHistoryBuffer_LateCap(h, command) ==
  LET unshifted == <<command>> \o h
  IN  IF Len(unshifted) > HistoryMax + 1 THEN Slice(unshifted, HistoryKeep)
      ELSE unshifted

\* addToHistory (lines 539-553)
AddToHistoryBuffer(h, command) ==
  LET unshifted == <<command>> \o h
  IN  IF Len(unshifted) > HistoryMax THEN Slice(unshifted, HistoryKeep)
      ELSE unshifted

\* loadHistory with its file access failing or not (lines 696-711): an
\* error thrown by readFileSync is caught before the buffer is assigned.
LoadHistoryOutcome(h, file, readable) ==
  IF file.exists /\ ~readable THEN h ELSE LoadHistory(h, file)

\* saveHistory with its file access failing or not (lines 715-732): an
\* error thrown by mkdirSync or writeFileSync is caught and nothing is
\* written.
SaveHistoryOutcome(h, file, writable) ==
  IF Len(h) > 0 /\ ~writable THEN file ELSE SaveHistory(h, file)

\* cleanup letting the error of saveHistory through
CleanupOutcome_Rethrows(h, writable) ==
  IF Len(h) > 0 /\ ~writable THEN "crashed" ELSE "resolved"

\* cleanup followed by resolve (lines 115-116, 735-745): saveHistory
\* returns normally whether or not its file access failed, so the session
\* ends as after a successful save.
CleanupOutcome(h, writable) == "resolved"

\* readline's own recording of a submitted line (terminal mode, default
\* options of createInterface): empty and blank lines and a repeat of the
\* newest entry are not recorded, the oldest entry is dropped above
\* historySize.
ReadlineRecord(h, line) ==
  IF Len(line) = 0 \/ TrimText(line) = <<>> THEN h
  ELSE IF h # <<>> /\ h[1] = line THEN h
  ELSE LET unshifted == <<line>> \o h
       IN  IF Len(unshifted) > HistorySize
           THEN SubSeq(unshifted, 1, Len(unshifted) - 1)
           ELSE unshifted

\* ------------------------------------------------------------- completion
\* [...new Set(xs)]: the first occurrence of each element, in order.
RECURSIVE Dedup(_)
Dedup(xs) ==
  IF xs = <<>> THEN <<>>
  ELSE LET rest == Dedup(SubSeq(xs, 1, Len(xs) - 1))
           x == xs[Len(xs)]
       IN  IF \E i \in 1..Len(rest) : rest[i] = x THEN rest
           ELSE Append(rest, x)

\* String.prototype.startsWith
StartsWith(text, prefix) ==
  /\ Len(prefix) <= Len(text)
  /\ SubSeq(text, 1, Len(prefix)) = prefix

\* Array.prototype.filter(cmd => cmd.startsWith(prefix))
RECURSIVE FilterPrefix(_, _)
FilterPrefix(xs, prefix) ==
  IF xs = <<>> THEN <<>>
  ELSE (IF StartsWith(Head(xs), prefix) THEN <<Head(xs)>> ELSE <<>>)
         \o FilterPrefix(Tail(xs), prefix)

\* String.prototype.split(' ')
RECURSIVE SplitBlank(_)
SplitBlank(text) ==
  IF \A i \in 1..Len(text) : text[i] # " " THEN <<text>>
  ELSE LET i == CHOOSE k \in 1..Len(text) :
                  text[k] = " " /\ \A j \in 1..(k - 1) : text[j] # " "
       IN  <<SubSeq(text, 1, i - 1)>>
             \o SplitBlank(SubSeq(text, i + 1, Len(text)))

\* getPathCommands (lines 589-638): path lists the executable files found
\* in the directories of PATH, in the order they are scanned.
GetPathCommands(path) == Slice(Dedup(path), CompletionCap)

\* getFileCompletions (lines 640-693) for a partial without a separator:
\* the entries of the current directory that start with it, hidden ones
\* only when the partial starts with a dot.
GetFileCompletions(partial) ==
  LET shown == IF StartsWith(partial, <<".">>) THEN DirListing
               ELSE SelectSeq(DirListing, NotHidden)
  IN  FilterPrefix(shown, partial)

\* completer (lines 564-587): the candidates offered for line.
Completer(line, path) ==
  LET parts == SplitBlank(line)
      lastPart == parts[Len(parts)]
  IN  IF Len(parts) = 1
      THEN FilterPrefix(Dedup(BasicCommands \o GetPathCommands(path)),
                        lastPart)
      ELSE GetFileCompletions(lastPart)

\* ------------------------------------------------------------------ Init
InitSession ==
  /\ aiService \in BOOLEAN
  /\ session = "running"
  /\ histSaved = FALSE
  /\ question = LineQuestion
  /\ rlLine = ""
  /\ ctx = NoCtx
  /\ slot = 0
  /\ procs = <<>>
  /\ last = Event("init", "init", FALSE, NullCode)
  /\ cwd = "/"

\* No completion was asked for yet; no key prompt was needed.
InitSide ==
  /\ completion = NoCompletion
  /\ keyTimers = <<>>

Init ==
  /\ InitSession
  /\ InitSide
  /\ history = <<>>
  /\ historyFile = NoFile

\* ------------------------------------------------- pieces of the handlers
\* IsExit that knows only 'exit'.
IsExit_OnlyExit(trimmedInput) == trimmedInput = "exit"

\* Line 113: the lines that end the session.
IsExit(trimmedInput) == trimmedInput \in {"exit", "quit"}

\* AfterEmptyLine that keeps the pending suggestion.
AfterEmptyLine_KeepsContext(c) == c

\* Line 122: an empty line clears the context.
AfterEmptyLine(c) == NoCtx

\* IsAiSuggested that takes every line for a suggestion.
IsAiSuggested_Always(c) == TRUE

\* Line 129: the submitted line is run as an AI suggestion iff a context is
\* pending.
IsAiSuggested(c) == c.set

\* Lines 131-133: once executeCommand has resolved, the loop clears the
\* context when the line was run as an AI suggestion.
AfterExecute(skipAiTranslation, c) == IF skipAiTranslation THEN NoCtx ELSE c

\* CloseBranch with the test `code === 0` taken after the AI branches.
CloseBranch_IgnoresExitCode(code, skipAiTranslation, originalPrompt, ai) ==
  IF ai /\ ~skipAiTranslation THEN "translate"
  ELSE IF skipAiTranslation /\ originalPrompt # NoText THEN "fix"
  ELSE IF code = 0 THEN "ok"
  ELSE "report"

\* CloseBranch with the test on aiService inverted.
CloseBranch_NeverTranslates(code, skipAiTranslation, originalPrompt, ai) ==
  IF code = 0 THEN "ok"
  ELSE IF ~ai /\ ~skipAiTranslation THEN "translate"
  ELSE IF skipAiTranslation /\ originalPrompt # NoText THEN "fix"
  ELSE "report"

\* CloseBranch asking for a translation whether or not the service exists
CloseBranch_NoServiceTest(code, skipAiTranslation, originalPrompt, ai) ==
  IF code = 0 THEN "ok"
  ELSE IF ~skipAiTranslation THEN "translate"
  ELSE IF skipAiTranslation /\ originalPrompt # NoText THEN "fix"
  ELSE "report"

\* Lines 380-398: which branch the close handler takes.
CloseBranch(code, skipAiTranslation, originalPrompt, ai) ==
  IF code = 0 THEN "ok"
  ELSE IF ai /\ ~skipAiTranslation THEN "translate"
  ELSE IF skipAiTranslation /\ originalPrompt # NoText THEN "fix"
  ELSE "report"

\* Line 393: code || 1, the exit code handed to handleFailedAiCommand.
ExitCodeArg(code) == IF code \in {NullCode, 0} THEN 1 ELSE code

\* Lines 499-507: what the fix prompt of handleFailedAiCommand is built
\* from.
FixRequest(originalPrompt, failedCommand, errorOutput, exitCode) ==
  [orig |-> originalPrompt, cmd |-> failedCommand, code |-> exitCode,
   err |-> TrimText(errorOutput)]

\* Lines 558-559: the answer that accepts the fix prompt.
IsYes(answer) == ToLowerCase(Trim(answer)) \in {"y", "yes"}

\* SigintBranch that never takes the exit branch: with nothing running it
\* only starts a new prompt.
SigintBranch_NeverQuits(running, c) ==
  IF running # 0 THEN "kill" ELSE "cancel"

\* Lines 148, 157: which branch the SIGINT handler takes.
SigintBranch(running, c) ==
  IF running # 0 THEN "kill" ELSE IF c.set THEN "cancel" ELSE "quit"

\* resolve() of executeCommand's promise followed by the loop's continuation
\* (lines 133, 142); a second resolve of the same promise does nothing.
\* r is the record as the handler leaves it; c, q and s are the context, the
\* pending question and the running-process slot at that point.
Finish(p, r, c, q, s) ==
  /\ procs' = Remove(procs, p)
  /\ slot' = ShiftPtr(s, p)
  /\ ctx' = IF r.resolved THEN c ELSE AfterExecute(r.skip, c)
  /\ question' = ShiftQuestion(IF r.resolved THEN q ELSE PromptUser(q), p)

\* ------------------------------------------------------- executeCommand
\* executeCommand(command, skipAiTranslation, originalPrompt), called from
\* the loop callback, whose question has just been consumed.
ExecuteCommand(command, skipAiTranslation, originalPrompt) ==
  IF StartsWithCd(command)
  THEN /\ cwd' = HandleCdCommand(cwd, command)
       /\ ctx' = AfterExecute(skipAiTranslation, ctx)
       /\ question' = PromptUser(NoQuestion)
       /\ last' = [Event("line", "cd", skipAiTranslation, NullCode)
                     EXCEPT !.msg = CdReport(cwd, command)]
       /\ UNCHANGED <<session, histSaved, slot, procs>>
  ELSE /\ Len(procs) < MaxProcs
       /\ LET r == NewProc(command, skipAiTranslation, originalPrompt)
          IN  \/ \* the child was spawned (lines 351-357)
                 /\ procs' = Append(procs, r)
                 /\ slot' = Len(procs) + 1
                 /\ question' = NoQuestion
                 /\ ctx' = ctx
                 /\ last' = [Event("line", "spawn", skipAiTranslation,
                                   NullCode)
                               EXCEPT !.dir = SpawnCwd(cwd)]
              \/ \* spawn failed: the 'error' handler runs on the next
                 \* tick, before any other event (lines 408-413)
                 /\ procs' = Append(procs, [r EXCEPT !.st = "errored",
                                                     !.resolved = TRUE])
                 /\ slot' = 0
                 /\ ctx' = AfterExecute(skipAiTranslation, ctx)
                 /\ question' = PromptUser(NoQuestion)
                 /\ last' = [Event("line", "error", skipAiTranslation,
                                   SpawnErrCode)
                               EXCEPT !.dir = SpawnCwd(cwd)]
       /\ UNCHANGED <<session, histSaved, cwd>>

\* The callback of promptUser's question (lines 110-143).
LoopCallback(input) ==
  LET trimmedInput == Trim(input)
  IN  IF IsExit(trimmedInput)
      THEN /\ Cleanup
           /\ session' = "resolved"
           /\ question' = NoQuestion
           /\ last' = Event("line", "exit", FALSE, NullCode)
           /\ UNCHANGED <<ctx, slot, procs, cwd>>
      ELSE IF trimmedInput = ""
      THEN /\ ctx' = AfterEmptyLine(ctx)
           /\ question' = PromptUser(NoQuestion)
           /\ last' = Event("line", "empty", FALSE, NullCode)
           /\ UNCHANGED <<session, histSaved, slot, procs, cwd>>
      ELSE IF IsAiSuggested(ctx)
      THEN ExecuteCommand(trimmedInput, TRUE, ctx.originalCommand)
      ELSE ExecuteCommand(trimmedInput, FALSE, NoText)

\* The callback of askUserConfirmation's question (lines 557-560) and the
\* rest of handleFailedAiCommand up to the translation request (488-509).
ConfirmCallback(p, answer) ==
  IF IsYes(answer)
  THEN /\ procs' = [procs EXCEPT ![p].st = "await_fix", ![p].nReq = @ + 1]
       /\ question' = NoQuestion
       /\ last' = [Event("answer", "yes", procs[p].skip, NullCode)
                     EXCEPT !.dir = GetDirectoryContext(cwd).currentDirectory,
                            !.req = FixRequest(procs[p].orig, procs[p].cmd,
                                               procs[p].err,
                                               ExitCodeArg(procs[p].code))]
       /\ UNCHANGED <<session, histSaved, ctx, slot, cwd>>
  ELSE /\ Finish(p, procs[p], ctx, NoQuestion, slot)
       /\ last' = Event("answer", "no", procs[p].skip, NullCode)
       /\ UNCHANGED <<session, histSaved, cwd>>

\* The user presses Enter on a line: readline empties its line buffer and
\* hands the line to the pending question callback, if any.
SubmitLine(input) ==
  /\ session = "running"
  /\ rlLine' = ""
  /\ UNCHANGED <<aiService, histVars, sideVars>>
  /\ CASE question.k = "line" -> LoopCallback(input)
       [] question.k = "confirm" -> ConfirmCallback(question.p, input)
       [] OTHER -> /\ last' = Event("line", "dropped", FALSE, NullCode)
                   /\ UNCHANGED <<session, histSaved, question, ctx, slot,
                                  procs, cwd>>

\* ------------------------------------------------------------- interrupt
\* The rl 'SIGINT' handler (lines 147-180).
Sigint ==
  /\ session = "running"
  /\ UNCHANGED <<aiService, cwd, histVars, sideVars>>
  /\ LET b == SigintBranch(slot, ctx)
     IN  /\ last' = Event("sigint", b, FALSE, NullCode)
         /\ CASE b = "kill" ->
                   /\ procs' = [procs EXCEPT ![slot].killed = TRUE]
                   /\ slot' = 0
                   /\ UNCHANGED <<session, histSaved, question, rlLine, ctx>>
              [] b = "cancel" ->
                   /\ ctx' = NoCtx
                   /\ rlLine' = ""
                   /\ question' = PromptUser(question)
                   /\ UNCHANGED <<session, histSaved, slot, procs>>
              [] OTHER ->
                   /\ Cleanup
                   /\ session' = "resolved"
                   /\ UNCHANGED <<question, rlLine, ctx, slot, procs>>

\* ---------------------------------------------------------- child events
\* The child's 'exit' event (lines 416-423); the handler uses neither the
\* code nor the signal except for a debug line.
ProcExit(p) ==
  /\ session = "running"
  /\ p \in 1..Len(procs)
  /\ procs[p].st = "running"
  /\ procs' = [procs EXCEPT ![p].st = "exited"]
  /\ slot' = 0
  /\ last' = Event("exit", "exit", procs[p].skip, NullCode)
  /\ UNCHANGED <<aiService, session, histSaved, question, rlLine, ctx, cwd,
                 histVars, sideVars>>

\* The child writes data to its error stream (lines 368-372): the handler
\* appends it to the errorOutput of this executeCommand invocation.
StderrData(p, data) ==
  /\ session = "running"
  /\ p \in 1..Len(procs)
  /\ Live(procs[p])
  /\ Len(procs[p].err) + Len(data) <= MaxStderr
  /\ procs' = [procs EXCEPT ![p].err = @ \o data]
  /\ last' = Event("stderr", "data", procs[p].skip, NullCode)
  /\ UNCHANGED <<aiService, session, histSaved, question, rlLine, ctx, slot,
                 cwd, histVars, sideVars>>

\* askUserConfirmation called from the close handler (lines 486-488):
\* the question is installed only if readline has none pending; otherwise
\* the confirmation promise never settles and the handler never continues.
AskFix(p, code) ==
  IF question.k = "none"
  THEN /\ procs' = [procs EXCEPT ![p].st = "await_confirm",
                                 ![p].killed = FALSE,
                                 ![p].code = code]
       /\ question' = ConfirmQuestion(p)
       /\ slot' = 0
       /\ last' = Event("close", "fix", procs[p].skip, code)
  ELSE /\ procs' = Remove(procs, p)
       /\ question' = ShiftQuestion(question, p)
       /\ slot' = 0
       /\ last' = Event("close", "fixhung", procs[p].skip, code)

\* The child's 'close' event (lines 376-406). code is what the child
\* reports; after a failed spawn Node reports the negative errno.
ProcClose(p, code) ==
  /\ session = "running"
  /\ p \in 1..Len(procs)
  /\ \/ procs[p].st = "exited" /\ code \in ExitCodes
     \/ procs[p].st = "errored" /\ code = SpawnErrCode
  /\ UNCHANGED <<aiService, session, histSaved, rlLine, cwd, histVars, sideVars>>
  /\ LET r == procs[p]
         b == CloseBranch(code, r.skip, r.orig, aiService)
     IN  CASE b = "translate" ->
                /\ procs' = [procs EXCEPT ![p].st = "await_translate",
                                          ![p].killed = FALSE,
                                          ![p].nReq = @ + 1]
                /\ slot' = 0
                /\ last' = [Event("close", b, r.skip, code)
                              EXCEPT !.dir =
                                GetDirectoryContext(cwd).currentDirectory]
                /\ UNCHANGED <<question, ctx>>
           [] b = "fix" -> AskFix(p, code) /\ UNCHANGED ctx
           [] OTHER -> /\ Finish(p, r, ctx, question, 0)
                       /\ last' = Event("close", b, r.skip, code)

\* AiRespond that runs the suggested command itself instead of prefilling
\* it into the line buffer.
AiRespond_RunsSuggestion(p, result) ==
  /\ session = "running"
  /\ p \in 1..Len(procs)
  /\ procs[p].st \in {"await_translate", "await_fix"}
  /\ result # NoText
  /\ procs' = Append(Remove(procs, p), NewProc(result, TRUE, procs[p].cmd))
  /\ slot' = Len(procs)
  /\ last' = Event("respond", "suggest", procs[p].skip, NullCode)
  /\ UNCHANGED <<aiService, session, histSaved, question, rlLine, ctx, cwd,
                 histVars, sideVars>>

\* translateCommand returns (result = NoText: null, no command, or threw)
\* and handleFailedCommand / handleFailedAiCommand run to their end
\* (lines 454-477, 511-532), then the close handler resolves.
AiRespond(p, result) ==
  /\ session = "running"
  /\ p \in 1..Len(procs)
  /\ procs[p].st \in {"await_translate", "await_fix"}
  /\ UNCHANGED <<aiService, session, histSaved, cwd, histVars, sideVars>>
  /\ IF result = NoText
     THEN /\ Finish(p, procs[p], ctx, question, slot)
          /\ last' = Event("respond", "none", procs[p].skip, NullCode)
          /\ UNCHANGED rlLine
     ELSE /\ rlLine' = rlLine \o result
          /\ last' = Event("respond", "suggest", procs[p].skip, NullCode)
          /\ Finish(p, procs[p],
                    MkCtx(IF procs[p].st = "await_fix" THEN procs[p].orig
                          ELSE procs[p].cmd),
                    question, slot)

\* ------------------------------------------------------------------ Next
\* What the user can submit: a typed line (which replaces whatever was
\* prefilled), or a prefilled suggestion unedited.
Lines(typed) ==
  (IF question.k = "confirm" THEN Answers ELSE typed)
    \cup ({rlLine} \cap AiCmds)

UserLines == Lines(Commands)

CdUserLines == Lines(CdCommands)

ProcIds == 1..MaxProcs

Next ==
  \/ \E input \in UserLines : SubmitLine(input)
  \/ Sigint
  \/ \E p \in ProcIds : ProcExit(p)
  \/ \E p \in ProcIds, code \in ExitCodes \cup {SpawnErrCode} : ProcClose(p, code)
  \/ \E p \in ProcIds, result \in AiCmds \cup {NoText} : AiRespond(p, result)

Spec == Init /\ [][Next]_vars

\* The session whose environment keeps its promises: a child that exited
\* closes, a running child exits, the collaborator answers, and the user
\* answers a fix prompt. Lines at the shell prompt and interrupts stay the
\* user's free choice.
Fairness ==
  /\ \A p \in ProcIds : WF_vars(ProcExit(p))
  /\ \A p \in ProcIds :
       WF_vars(\E code \in ExitCodes \cup {SpawnErrCode} : ProcClose(p, code))
  /\ \A p \in ProcIds :
       WF_vars(\E result \in AiCmds \cup {NoText} : AiRespond(p, result))
  /\ WF_vars(question.k = "confirm"
               /\ \E answer \in Answers : SubmitLine(answer))

SpecLive == Init /\ [][Next]_vars /\ Fairness

\* The same session with the directory-change lines as the user's input.
NextCd ==
  \/ \E input \in CdUserLines : SubmitLine(input)
  \/ Sigint
  \/ \E p \in ProcIds : ProcExit(p)
  \/ \E p \in ProcIds, code \in ExitCodes \cup {SpawnErrCode} : ProcClose(p, code)
  \/ \E p \in ProcIds, result \in AiCmds \cup {NoText} : AiRespond(p, result)

SpecCd == Init /\ [][NextCd]_vars

\* The same session with the children's error streams observed.
ErrUserLines == Lines(ErrCommands)

NextErr ==
  \/ \E input \in ErrUserLines : SubmitLine(input)
  \/ Sigint
  \/ \E p \in ProcIds : ProcExit(p)
  \/ \E p \in ProcIds, data \in ErrChunks : StderrData(p, data)
  \/ \E p \in ProcIds, code \in ExitCodes \cup {SpawnErrCode} : ProcClose(p, code)
  \/ \E p \in ProcIds, result \in AiCmds \cup {NoText} : AiRespond(p, result)

SpecErr == Init /\ [][NextErr]_vars

\* ------------------------------------------------- history operations
\* What the history operations leave alone.
histFrame == <<aiService, session, histSaved, question, rlLine, ctx, slot,
               procs, cwd, sideVars>>

\* The user submits a line: readline records it in its history.
TypeLine(line) ==
  /\ history' = ReadlineRecord(history, line)
  /\ last' = Event("history", "record", FALSE, NullCode)
  /\ UNCHANGED <<historyFile, histFrame>>

\* handleFailedCommand records the failed command (line 466).
AddToHistory(command) ==
  /\ history' = AddToHistoryBuffer(history, command)
  /\ last' = Event("history",
                   IF Len(history) + 1 > HistoryMax THEN "truncate"
                   ELSE "append",
                   FALSE, NullCode)
  /\ UNCHANGED <<historyFile, histFrame>>

\* cleanup() saves the history (line 737).
SaveHistoryFile ==
  /\ historyFile' = SaveHistory(history, historyFile)
  /\ last' = Event("history", "save", FALSE, NullCode)
  /\ UNCHANGED <<history, histFrame>>

\* A new session starts: createInterface gives an empty history and start()
\* loads the file (lines 81-88).
StartSession ==
  /\ history' = LoadHistory(<<>>, historyFile)
  /\ last' = Event("history", "load", FALSE, NullCode)
  /\ UNCHANGED <<historyFile, histFrame>>

NextHist ==
  \/ \E line \in TypedLines : TypeLine(line)
  \/ \E command \in FailedCommands : AddToHistory(command)
  \/ SaveHistoryFile
  \/ StartSession

\* A history file of n lines, the i-th (oldest first) made of i letters.
RECURSIVE Letters(_)
Letters(n) == IF n = 0 THEN <<>> ELSE <<"a">> \o Letters(n - 1)

FileOfLines(n) == File(Join([i \in 1..n |-> Letters(i)]) \o <<NL>>)

\* The history file found by the first session: none, or one that holds as
\* many entries as saveHistory writes at most.
InitHist ==
  /\ InitSession
  /\ InitSide
  /\ history = <<>>
  /\ historyFile \in {NoFile, FileOfLines(HistoryMax)}

SpecHist == InitHist /\ [][NextHist]_vars

\* A session starts: the history file is read, or reading it fails.
StartSessionIO(readable) ==
  /\ session = "resolved" \/ last.h = "init"
  /\ history' = LoadHistoryOutcome(<<>>, historyFile, readable)
  /\ session' = "running"
  /\ histSaved' = FALSE
  /\ last' = Event("history",
                   IF historyFile.exists /\ ~readable THEN "loaderror"
                   ELSE "load",
                   FALSE, NullCode)
  /\ UNCHANGED <<historyFile, aiService, question, rlLine, ctx, slot, procs,
                 cwd, sideVars>>

\* The session ends on 'exit' or 'quit': cleanup saves the history, or
\* saving fails, and the loop resolves.
EndSessionIO(writable) ==
  /\ session = "running"
  /\ historyFile' = SaveHistoryOutcome(history, historyFile, writable)
  /\ histSaved' = TRUE
  /\ session' = CleanupOutcome(history, writable)
  /\ last' = Event("history",
                   IF Len(history) > 0 /\ ~writable THEN "saveerror"
                   ELSE "save",
                   FALSE, NullCode)
  /\ UNCHANGED <<history, aiService, question, rlLine, ctx, slot, procs,
                 cwd, sideVars>>

NextHistIO ==
  \/ \E readable \in BOOLEAN : StartSessionIO(readable)
  \/ \E writable \in BOOLEAN : EndSessionIO(writable)
  \/ session = "running" /\ \E line \in TypedLines : TypeLine(line)
  \/ session = "running" /\ \E command \in FailedCommands :
                               AddToHistory(command)

SpecHistIO == InitHist /\ [][NextHistIO]_vars

\* ---------------------------------------------------- completion operation
\* The user presses Tab on line: readline calls the completer.
Complete(line) ==
  /\ session = "running"
  /\ completion' = [completion EXCEPT
                      !.line = line,
                      !.hits = Completer(line, completion.path)]
  /\ last' = Event("tab", "complete", FALSE, NullCode)
  /\ UNCHANGED <<aiService, session, histSaved, question, rlLine, ctx, slot,
                 procs, cwd, histVars, keyTimers>>

SeqsUpTo(S, n) == UNION {[1..k -> S] : k \in 0..n}

InitComplete ==
  /\ InitSession
  /\ history = <<>>
  /\ historyFile = NoFile
  /\ \E path \in SeqsUpTo(PathNames, MaxPath) :
       completion = [NoCompletion EXCEPT !.path = path]
  /\ keyTimers = <<>>

NextComplete == \E line \in CompletedLines : Complete(line)

SpecComplete == InitComplete /\ [][NextComplete]_vars

\* ------------------------------------------------------------ key prompt
\* promptForApiKey (ConfigManager, lines 59-85): the question is asked and
\* a timer of KeyTimeout is armed; nothing ever clears the timer.
PromptForApiKey(timers) == Append(timers, KeyTimeout)

\* The timers after the question callback ran (lines 65-76): the callback
\* closes its readline interface and leaves the timer armed.
AfterKeyLine(timers) == timers

\* The user submits a line at the key prompt. A non-empty key resolves
\* ensureGeminiApiKey, which saves it (saving may throw, and start() then
\* goes on without the service), and start() opens the shell prompt; an
\* empty one asks again.
EnterKey(apiKey, saved) ==
  /\ session = "starting"
  /\ IF Trim(apiKey) # ""
     THEN /\ keyTimers' = AfterKeyLine(keyTimers)
          /\ aiService' = saved
          /\ session' = "running"
          /\ question' = LineQuestion
          /\ last' = Event("key", "entered", FALSE, NullCode)
     ELSE /\ Len(keyTimers) < MaxKeyPrompts
          /\ keyTimers' = PromptForApiKey(AfterKeyLine(keyTimers))
          /\ last' = Event("key", "empty", FALSE, NullCode)
          /\ UNCHANGED <<aiService, session, question>>
  /\ UNCHANGED <<histSaved, rlLine, ctx, slot, procs, cwd, histVars,
                 completion>>

\* Time passes for the armed timers; a timer that is due fires first.
Tick ==
  /\ session # "exited"
  /\ keyTimers # <<>>
  /\ \A i \in 1..Len(keyTimers) : keyTimers[i] > 0
  /\ keyTimers' = [i \in 1..Len(keyTimers) |-> keyTimers[i] - 1]
  /\ UNCHANGED <<aiService, session, histSaved, question, rlLine, ctx, slot,
                 procs, last, cwd, histVars, completion>>

\* The timeout callback (lines 79-83): process.exit(1).
KeyTimerFires ==
  /\ session # "exited"
  /\ \E i \in 1..Len(keyTimers) : keyTimers[i] = 0
  /\ session' = "exited"
  /\ last' = Event("key", "timeout", FALSE, NullCode)
  /\ UNCHANGED <<aiService, histSaved, question, rlLine, ctx, slot, procs,
                 cwd, histVars, sideVars>>

\* start() finds no key in the environment or the configuration file and
\* shows the key prompt.
InitKey ==
  /\ aiService = FALSE
  /\ session = "starting"
  /\ histSaved = FALSE
  /\ question = NoQuestion
  /\ rlLine = ""
  /\ ctx = NoCtx
  /\ slot = 0
  /\ procs = <<>>
  /\ last = Event("init", "init", FALSE, NullCode)
  /\ cwd = "/"
  /\ history = <<>>
  /\ historyFile = NoFile
  /\ completion = NoCompletion
  /\ keyTimers = PromptForApiKey(<<>>)

NextKey ==
  \/ \E apiKey \in KeyLines, saved \in BOOLEAN : EnterKey(apiKey, saved)
  \/ Tick
  \/ KeyTimerFires
  \/ \E input \in ErrUserLines : SubmitLine(input)
  \/ Sigint
  \/ \E p \in ProcIds : ProcExit(p)
  \/ \E p \in ProcIds, code \in ExitCodes \cup {SpawnErrCode} : ProcClose(p, code)
  \/ \E p \in ProcIds, result \in AiCmds \cup {NoText} : AiRespond(p, result)

SpecKey == InitKey /\ [][NextKey]_vars

\* The history file found by the first session holds more entries than
\* saveHistory writes (loadHistory has no limit).
InitHistLong ==
  /\ InitSession
  /\ InitSide
  /\ history = <<>>
  /\ historyFile = FileOfLines(HistoryMax + 1)

SpecHistLong == InitHistLong /\ [][NextHist]_vars

\* ================================================================ claims
InFlight == 1..Len(procs)

\* C1: a command whose child closes with exit code 0 issues no translation
\* request and gets no fix prompt (its close handler takes the plain branch
\* and ends), and when that command was an accepted suggestion the context
\* is empty and a prompt is pending right after.
C1_CleanExitIsQuiet ==
  (last.h = "close" /\ last.code = 0) =>
     /\ last.b = "ok"
     /\ last.skip => (ctx = NoCtx /\ question.k # "none")

C1_Witness ==
  /\ last = Event("close", "ok", TRUE, 0)
  /\ ctx = NoCtx
  /\ question = LineQuestion

\* C2: an ordinary command that closes with a nonzero exit code while the
\* collaborator is available has exactly one translation request issued for
\* it: one at the close event, and none before or after it.
C2_ExactlyOneTranslation ==
  /\ (last.h = "close" /\ last.code \notin {0, NullCode} /\ ~last.skip
        /\ aiService) => last.b = "translate"
  /\ \A p \in InFlight :
       ~procs[p].skip =>
          /\ procs[p].nReq = IF procs[p].st = "await_translate" THEN 1 ELSE 0
          /\ procs[p].st \notin {"await_confirm", "await_fix"}

C2_Witness ==
  /\ last.h = "close" /\ last.b = "translate"
  /\ ~last.skip /\ last.code = 1
  /\ \E p \in InFlight : procs[p].st = "await_translate" /\ procs[p].nReq = 1

\* C3: when a line is submitted while a suggestion is pending, the context
\* is cleared before the command starts executing: right after the spawn of
\* a command run as a suggestion the context is empty.
C3_ContextClearedBeforeExecution ==
  (last.h = "line" /\ last.b = "spawn" /\ last.skip) => ctx = NoCtx

\* C4: an interrupt delivered while a child is live (spawned, not yet
\* closed) leaves the session running.
C4_InterruptWhileLiveKeepsSession ==
  (last.h = "sigint" /\ \E p \in InFlight : Live(procs[p]))
     => session = "running"

\* C5: a child that the session interrupted and that died of the signal is
\* not treated as a failed command: its close event issues no translation
\* request and shows no fix prompt.
C5_InterruptIsNotFailure ==
  [][\A p \in InFlight :
       (procs[p].killed /\ ProcClose(p, NullCode))
          => last'.b \notin {"translate", "fix", "fixhung"}]_vars

\* C6: a command is spawned only by the user submitting a line at the shell
\* prompt, and a spawned command whose text the collaborator produced is the
\* line that was prefilled at that prompt.
RunningChildren(ps) == {p \in 1..Len(ps) : ps[p].st = "running"}

C7_IdleInterruptExitsAfterSave ==
  [][/\ (Sigint /\ ~ctx.set /\ \A p \in InFlight : ~Live(procs[p]))
          => session' = "resolved"
     /\ session' = "resolved" => histSaved']_vars

C7_Witness ==
  /\ last.h = "sigint" /\ last.b = "quit"
  /\ session = "resolved"
  /\ histSaved

\* C8: every line submitted at the shell prompt while a suggestion is
\* prefilled in the line buffer runs with the provenance flag set
\* (skipAiTranslation), so that its failure leads to the fix prompt.
C8_PrefilledLineRunsAsSuggestion ==
  [][\A input \in UserLines :
       (/\ question.k = "line"
        /\ rlLine # ""
        /\ SubmitLine(input)
        /\ Len(procs') > Len(procs))
          => procs'[Len(procs')].skip]_vars

\* C9: a translation request for a failed suggested command is issued only
\* after the user answered yes to the fix prompt for that failure.
C9_FixNeedsConfirmation ==
  \A p \in InFlight :
    (procs[p].cmd \in AiCmds /\ procs[p].nReq > 0) => procs[p].st = "await_fix"

C10_Witness ==
  /\ last = Event("answer", "no", TRUE, NullCode)
  /\ ctx = NoCtx
  /\ question = LineQuestion

\* C11: when the user accepted the fix prompt and the collaborator returns a
\* further suggestion, the context is pending with the original text of that
\* invocation (originalPrompt) when the handler chain has run, i.e. when the
\* next line is read.
C11_FixSuggestionKeepsOriginalText ==
  [][\A p \in InFlight, result \in AiCmds :
       (procs[p].st = "await_fix" /\ AiRespond(p, result))
          => ctx' = MkCtx(procs[p].orig)]_vars

\* C12: at most one child is live (spawned and not yet closed) at any time.
LiveChildren == {p \in InFlight : Live(procs[p])}

C12_AtMostOneLiveChild == Cardinality(LiveChildren) <= 1

\* C13: an interrupt delivered while a suggestion is pending or the fix
\* prompt is outstanding, and no child is live, leaves no pending suggestion
\* and no fix in progress, empties the line buffer and keeps the session
\* running.
FixOffered == question.k = "confirm"

C13_InterruptCancelsOffer ==
  [][(Sigint /\ (ctx.set \/ FixOffered) /\ LiveChildren = {})
       => /\ ctx' = NoCtx
          /\ question'.k = "line"
          /\ \A p \in 1..Len(procs') :
               procs'[p].st \notin {"await_confirm", "await_fix"}
          /\ rlLine' = ""
          /\ session' = "running"]_vars

\* C14: the session loop resolves only on an 'exit'/'quit' line or on an
\* interrupt delivered while no child is live and no suggestion is pending.
C14_OnlyDeliberateExits ==
  [][(session = "running" /\ session' = "resolved")
       => \/ /\ question.k = "line"
             /\ \E input \in UserLines :
                  Trim(input) \in {"exit", "quit"} /\ SubmitLine(input)
          \/ Sigint /\ LiveChildren = {} /\ ~ctx.set]_vars

\* C15: when the collaborator returns nothing usable, the handler creates no
\* context and issues no further request for that failure (the invocation
\* ends), and the shell prompt is pending with no suggestion pending.
C15_NoSuggestionReturnsToIdle ==
  [][\A p \in InFlight :
       AiRespond(p, NoText)
          => /\ ctx' \in {ctx, NoCtx}
             /\ Len(procs') = Len(procs) - 1
             /\ question'.k = "line"
             /\ ~ctx'.set]_vars

\* C19: after a failed spawn (the child's 'error' event) no translation
\* request and no fix prompt is issued for that command.
C19_SpawnErrorIsNotFailure ==
  [][\A p \in InFlight :
       (procs[p].st = "errored" /\ ProcClose(p, SpawnErrCode))
          => last'.b \notin {"translate", "fix", "fixhung"}]_vars

\* C20: from a child's spawn until its close event the running-process slot
\* holds that child.
C20_SlotHeldUntilClose == \A p \in InFlight : Live(procs[p]) => slot = p

\* C16: a directory change whose target is missing leaves currentDirectory
\* unchanged and prints a 'no such file or directory' failure that names the
\* resolved absolute target (the argument resolved against the current
\* directory), not the argument as typed.
C16_FailedCdNamesResolvedTarget ==
  [][\A input \in CdCommands :
       (/\ question.k = "line"
        /\ StartsWithCd(Trim(input))
        /\ TargetDir(cwd, Trim(input)) \notin Dirs
        /\ SubmitLine(input))
          => /\ cwd' = cwd
             /\ last'.msg = "cd: no such file or directory: "
                               \o TargetDir(cwd, Trim(input))]_vars

C16_Witness ==
  /\ last.h = "line" /\ last.b = "cd"
  /\ cwd = "/w"
  /\ last.msg = "cd: no such file or directory: /w/w"

\* C18: every submitted line that begins with 'cd ' or is 'cd' with no
\* argument is handled by handleCdCommand and starts no child.
C18_CdNeverSpawns ==
  [][\A input \in CdCommands :
       (/\ question.k = "line"
        /\ (Trim(input) = "cd" \/ StartsWithCd(Trim(input)))
        /\ SubmitLine(input))
          => /\ procs' = procs
             /\ last'.b = "cd"]_vars

\* C17: saving the recall buffer and loading the file into a fresh store
\* gives the same buffer in the same order, for every buffer of at most
\* HistoryMax entries, the empty one included.
C17_SaveLoadRoundTrip ==
  Len(history) <= HistoryMax
     => LoadHistory(<<>>, SaveHistory(history, historyFile)) = history

\* C21: an interrupt delivered while a child is live is forwarded to that
\* child only: the context, currentDirectory, the recall buffer and the
\* pending question are unchanged (no new prompt), and the session keeps
\* running.
C21_InterruptIsForwardedOnly ==
  [][(Sigint /\ LiveChildren # {})
       => /\ \E p \in LiveChildren : procs'[p].killed
          /\ ctx' = ctx
          /\ cwd' = cwd
          /\ history' = history
          /\ question' = question
          /\ session' = session]_vars

\* C22: an empty or blank line read at the shell prompt starts no child and
\* issues no translation request, leaves no suggestion pending and prompts
\* again; the line submitted next starts its command without the provenance
\* flag.
C22_EmptyLineCancelsSuggestion ==
  [][\A input \in UserLines :
       /\ (question.k = "line" /\ Trim(input) = "" /\ SubmitLine(input))
            => /\ procs' = procs
               /\ ctx' = NoCtx
               /\ question' = LineQuestion
       /\ (/\ last.h = "line" /\ last.b = "empty"
           /\ SubmitLine(input)
           /\ Len(procs') > Len(procs))
            => /\ ~procs'[Len(procs')].skip
               /\ procs'[Len(procs')].orig = NoText]_vars

C22_Witness ==
  /\ last.h = "line" /\ last.b = "empty"
  /\ ctx = NoCtx
  /\ question = LineQuestion
  /\ rlLine = ""

\* C23: a line read at the shell prompt whose trimmed text is 'exit' or
\* 'quit' resolves the session loop whatever the context and the commands
\* in flight are, with the history saved, and starts no child.
C23_ExitLineEndsSession ==
  [][\A input \in UserLines :
       (question.k = "line" /\ Trim(input) \in {"exit", "quit"}
          /\ SubmitLine(input))
            => /\ session' = "resolved"
               /\ histSaved'
               /\ procs' = procs]_vars

C23_Witness ==
  /\ last.h = "line" /\ last.b = "exit"
  /\ session = "resolved"
  /\ histSaved
  /\ ctx.set

\* C24: a line read at the shell prompt while no suggestion is pending runs
\* without the provenance flag and without an original prompt, and the close
\* of a command without the flag leads to a plain translation request or to
\* nothing, never to the fix prompt.
C24_IdleLineIsOrdinary ==
  [][/\ \A input \in UserLines :
          (question.k = "line" /\ ~ctx.set /\ SubmitLine(input))
             => /\ ~last'.skip
                /\ Len(procs') > Len(procs)
                     => /\ ~procs'[Len(procs')].skip
                        /\ procs'[Len(procs')].orig = NoText
     /\ \A p \in InFlight, code \in ExitCodes \cup {SpawnErrCode} :
          (~procs[p].skip /\ ProcClose(p, code))
             => last'.b \in {"ok", "translate", "report"}
     /\ \A p \in 1..Len(procs') :
          ~procs'[p].skip
             => procs'[p].st \notin {"await_confirm", "await_fix"}]_vars

C24_Witness ==
  /\ last.h = "close" /\ last.b = "translate" /\ ~last.skip
  /\ ~ctx.set
  /\ \E p \in InFlight : ~procs[p].skip /\ procs[p].st = "await_translate"
                            /\ procs[p].orig = NoText

\* C25: addToHistory puts the command at the front of the recall buffer; when
\* the resulting length exceeds HistoryMax the buffer becomes its HistoryKeep
\* newest entries in order, otherwise every earlier entry stays, in order,
\* behind the new one.
C25_AppendFrontThenTruncate ==
  [][\A command \in FailedCommands :
       AddToHistory(command)
         => /\ history'[1] = command
            /\ IF Len(history) + 1 > HistoryMax
               THEN /\ Len(history') = HistoryKeep
                    /\ \A i \in 2..HistoryKeep : history'[i] = history[i - 1]
               ELSE /\ Len(history') = Len(history) + 1
                    /\ \A i \in 1..Len(history) :
                         history'[i + 1] = history[i]]_vars

C25_Witness ==
  /\ last.h = "history"
  /\ last.b = "truncate"
  /\ Len(history) = HistoryKeep
  /\ history[1] \in FailedCommands
  /\ history[2] # history[1]

\* The number of entries a history file holds.
FileEntries(file) ==
  IF file.exists THEN Len(SelectSeq(Split(file.content), NonEmpty)) ELSE 0

\* C26: starting from a history file of at most HistoryMax entries, the
\* recall buffer holds at most HistoryMax entries whenever an addToHistory
\* has just completed, and the history file never holds more than HistoryMax
\* entries.
C26_HistoryBounded ==
  /\ (last.h = "history" /\ last.b \in {"append", "truncate"})
        => Len(history) <= HistoryMax
  /\ FileEntries(historyFile) <= HistoryMax

C26_Witness ==
  /\ last.h = "history"
  /\ last.b = "append"
  /\ Len(history) = HistoryMax
  /\ FileEntries(historyFile) = HistoryMax

\* C27: when the recall buffer holds more than HistoryMax entries at save
\* time, the file written holds exactly the HistoryMax newest entries,
\* oldest first.
C27_SaveKeepsMostRecent ==
  [][(SaveHistoryFile /\ Len(history) > HistoryMax)
       => historyFile'
            = File(Join(Reverse(Slice(history, HistoryMax))) \o <<NL>>)]_vars

\* C28: saveHistory leaves the recall buffer alone, and saving again right
\* after a save leaves the file as the first save wrote it.
C28_SaveIsIdempotent ==
  [][SaveHistoryFile
       => /\ history' = history
          /\ SaveHistory(history', historyFile') = historyFile']_vars

C28_Witness ==
  /\ last.h = "history"
  /\ last.b = "save"
  /\ Len(history) > 1
  /\ historyFile = File(Join(Reverse(history)) \o <<NL>>)

\* C29: currentDirectory changes only in a step where handleCdCommand
\* succeeded, and then to the existing directory it resolved; every other
\* step leaves it as it is, and every child is spawned with the
\* currentDirectory of the moment of the spawn.
C29_OnlyCdChangesDirectory ==
  [][/\ (cwd' # cwd)
          => /\ last'.h = "line" /\ last'.b = "cd" /\ last'.msg = NoText
             /\ cwd' \in Dirs
             /\ \E input \in UserLines :
                  /\ question.k = "line"
                  /\ SubmitLine(input)
                  /\ StartsWithCd(Trim(input))
                  /\ cwd' = TargetDir(cwd, Trim(input))
     /\ (Len(procs') > Len(procs))
          => /\ last'.h = "line" /\ last'.b \in {"spawn", "error"}
             /\ last'.dir = cwd
             /\ cwd' = cwd]_vars

C29_Witness ==
  /\ last.h = "line"
  /\ last.b = "spawn"
  /\ last.dir = "/w"
  /\ cwd = "/w"
  /\ Len(procs) = 1

\* C30: every translation request, plain (handleFailedCommand) or fix
\* (handleFailedAiCommand), carries a DirectoryContext whose
\* currentDirectory is the session's currentDirectory when the request is
\* made.
C30_FreshDirectoryContext ==
  (\/ last.h = "close" /\ last.b = "translate"
   \/ last.h = "answer" /\ last.b = "yes")
     => last.dir = cwd

C30_Witness ==
  /\ last.h = "answer"
  /\ last.b = "yes"
  /\ last.dir = "/w"
  /\ cwd = "/w"
  /\ \E p \in 1..Len(procs) : procs[p].st = "await_fix"

\* C31: a fix translation request carries the original text recorded for
\* the suggestion, the suggested command as it was submitted, the exit code
\* that command closed with and the error text accumulated while that
\* command ran.
C31_FixRequestCarriesFailure ==
  [][(question.k = "confirm" /\ last'.h = "answer" /\ last'.b = "yes")
       => LET r == procs[question.p]
          IN  /\ last'.req.orig = r.orig
              /\ last'.req.cmd = r.cmd
              /\ last'.req.code = r.code
              /\ last'.req.err = r.err]_vars

\* C32: a failure while loading or saving the history is never fatal. When
\* the file is missing or cannot be read the recall buffer stays as
\* createInterface made it and the session runs; when the file cannot be
\* written the session still ends normally.
C32_HistoryFailureIsNotFatal ==
  [][/\ \A readable \in BOOLEAN :
          (StartSessionIO(readable) /\ (~historyFile.exists \/ ~readable))
            => /\ history' = <<>>
               /\ session' = "running"
               /\ historyFile' = historyFile
     /\ \A writable \in BOOLEAN :
          (EndSessionIO(writable) /\ ~writable)
            => /\ session' = "resolved"
               /\ histSaved'
               /\ history' = history]_vars

C32_Witness ==
  /\ last.h = "history"
  /\ last.b = "saveerror"
  /\ session = "resolved"
  /\ history # <<>>
  /\ ~historyFile.exists

\* C33: for a first-token completion the candidates are at most
\* CompletionCap, hold no duplicates and all start with the partial token.
C33_CompletionsCappedAndDistinct ==
  (last.h = "tab" /\ Len(SplitBlank(completion.line)) = 1)
    => /\ Len(completion.hits) <= CompletionCap
       /\ \A i, j \in 1..Len(completion.hits) :
            completion.hits[i] = completion.hits[j] => i = j
       /\ \A i \in 1..Len(completion.hits) :
            StartsWith(completion.hits[i], completion.line)

\* C34: every line submitted at the shell prompt, other than exit and quit,
\* is eventually followed by a new shell prompt, provided children close,
\* the collaborator answers and fix prompts are answered; and a close with
\* code 0 takes the plain branch, with no translation and no fix prompt.
C34_LineLeadsToPrompt ==
  /\ (last.h = "line" /\ last.b \in {"empty", "cd", "spawn", "error"})
        ~> (question.k = "line")
  /\ [][(last'.h = "close" /\ last'.code = 0) => last'.b = "ok"]_vars

\* C35: while aiService is null no translation request is issued, no fix
\* prompt is shown and the suggestion context is empty; the close of a
\* failed command takes the report branch, and the shell prompt is pending
\* afterwards (the late close of a child that failed to spawn only
\* reports: its prompt was given when the spawn failed).
C35_NoServiceNoTranslation ==
  ~aiService
    => /\ ~ctx.set
       /\ question.k # "confirm"
       /\ \A p \in 1..Len(procs) :
            /\ procs[p].nReq = 0
            /\ procs[p].st \notin {"await_translate", "await_confirm",
                                   "await_fix"}
       /\ (last.h = "close" /\ last.code # 0)
            => /\ last.b = "report"
               /\ (last.code # SpawnErrCode => question.k = "line")

C35_Witness ==
  /\ ~aiService
  /\ last.h = "close"
  /\ last.code = 1
  /\ last.b = "report"
  /\ procs = <<>>
  /\ question.k = "line"

\* A directory-change line: 'cd' alone or 'cd ' followed by an argument.
IsCdLine(trimmedInput) == trimmedInput = "cd" \/ StartsWithCd(trimmedInput)

\* C36: a directory-change line never leads to a translation request or a
\* fix prompt, and when it was submitted while a suggestion was pending the
\* context is empty at the prompt that follows.
C36_CdNeverTranslates ==
  [][/\ \A p \in 1..Len(procs') :
          IsCdLine(procs'[p].cmd)
            => procs'[p].st \notin {"await_translate", "await_confirm",
                                    "await_fix"}
     /\ \A input \in CdUserLines :
          (/\ question.k = "line"
           /\ IsCdLine(Trim(input))
           /\ ctx.set
           /\ SubmitLine(input))
             => /\ ctx' = NoCtx
                /\ question'.k = "line"]_vars

\* C37: once the session has ended, by an exit or quit line or by the exit
\* branch of the interrupt handler, no child it spawned is still running.
C37_NoChildSurvivesSession ==
  session = "resolved" => RunningChildren(procs) = {}

\* C38: when an interrupt has just cancelled the suggestion context while
\* the fix prompt of a failed suggestion is outstanding, the next step
\* issues no fix request for that failure (an answer to that prompt cannot
\* accept the fix any more).
C38_CancelledFixIsNotRequested ==
  [][(last.h = "sigint" /\ last.b = "cancel" /\ question.k = "confirm")
       => ~(last'.h = "answer" /\ last'.b = "yes")]_vars

\* C39: the input timeout of the key prompt ends the process only while no
\* non-empty key has been entered: once start() has its key and the session
\* runs, no timer of the key prompt exits the process.
C39_TimeoutOnlyWithoutKey ==
  [][KeyTimerFires => session = "starting"]_vars

====
